---- MODULE Spec2Model ----
(***************************************************************************)
(* Model of src/process_transactions.py: main() reads sample_data.csv,     *)
(* converts the date column, drops incomplete rows, signs the amounts,     *)
(* adds the calendar columns, sorts by date, accumulates the running       *)
(* balance, builds the monthly summary and writes the two CSV files.       *)
(*                                                                         *)
(* Amounts are whole cents (integers).  A cell of the date column is a     *)
(* record [kind, a, b, c]:                                                 *)
(*   "nan"    an empty CSV cell                                            *)
(*   "text"   a string that no parser reads as a date                      *)
(*   "iso"    the string "a-b-c"  (YYYY-MM-DD)                             *)
(*   "slash"  the string "a/b/c"  (two numbers and a year)                 *)
(*   "ts"     a Timestamp, year a, month b, day c                          *)
(*   "nat"    NaT                                                          *)
(* Row labels (the DataFrame index) are 1-based here, 0-based in pandas.   *)
(***************************************************************************)
EXTENDS Integers, Sequences, FiniteSets, TLC

VARIABLES pc, input, df, initial_count, dropped, monthly_summary, written

vars == <<pc, input, df, initial_count, dropped, monthly_summary, written>>

\* Largest number of data rows of sample_data.csv explored.
MaxRows == 2

----------------------------------------------------------------------------
\* Cells

NaN == [kind |-> "nan", a |-> 0, b |-> 0, c |-> 0]

NaT == [kind |-> "nat", a |-> 0, b |-> 0, c |-> 0]

Timestamp(y, m, d) == [kind |-> "ts", a |-> y, b |-> m, c |-> d]

IsoString(y, m, d) == [kind |-> "iso", a |-> y, b |-> m, c |-> d]

SlashString(p, q, y) == [kind |-> "slash", a |-> p, b |-> q, c |-> y]

TextString == [kind |-> "text", a |-> 0, b |-> 0, c |-> 0]

IsNull(v) == v.kind \in {"nan", "nat"}

\* The values the date column of the input takes.
RawDates ==
    { NaN, TextString,
      IsoString(2024, 1, 5), IsoString(2024, 1, 20),
      SlashString(3, 4, 2024), SlashString(25, 12, 2024) }

NaNAmount == [na |-> TRUE, v |-> 0]

Amount(x) == [na |-> FALSE, v |-> x]

\* The values the amount column of the input takes, in cents.
RawAmounts == { NaNAmount, Amount(0), Amount(10000), Amount(-4000) }

NaNType == [na |-> TRUE, s |-> << >>]

Label(s) == [na |-> FALSE, s |-> s]

\* The labels " expense" and "INCOME".
RawTypeExpense == Label(<<" ", "e", "x", "p", "e", "n", "s", "e">>)

RawTypeIncome == Label(<<"I", "N", "C", "O", "M", "E">>)

\* The values the type column of the input takes.
RawTypes == { NaNType, RawTypeExpense, RawTypeIncome }

----------------------------------------------------------------------------
\* str.strip() and str.title()

LowerCase == <<"e", "x", "p", "n", "s", "i", "c", "o", "m">>

UpperCase == <<"E", "X", "P", "N", "S", "I", "C", "O", "M">>

IsLower(ch) == \E i \in 1..Len(LowerCase) : LowerCase[i] = ch

IsUpper(ch) == \E i \in 1..Len(UpperCase) : UpperCase[i] = ch

IsCased(ch) == IsLower(ch) \/ IsUpper(ch)

Upper(ch) ==
    IF IsLower(ch)
    THEN UpperCase[CHOOSE i \in 1..Len(LowerCase) : LowerCase[i] = ch]
    ELSE ch

Lower(ch) ==
    IF IsUpper(ch)
    THEN LowerCase[CHOOSE i \in 1..Len(UpperCase) : UpperCase[i] = ch]
    ELSE ch

IsSpace(ch) == ch = " "

RECURSIVE LStrip(_)
LStrip(s) ==
    IF s # << >> /\ IsSpace(Head(s)) THEN LStrip(Tail(s)) ELSE s

RECURSIVE RStrip(_)
RStrip(s) ==
    IF s # << >> /\ IsSpace(s[Len(s)])
    THEN RStrip(SubSeq(s, 1, Len(s) - 1))
    ELSE s

Strip(s) == RStrip(LStrip(s))

\* str.title(): a cased character is upper-cased when it starts the string
\* or follows an uncased character, lower-cased otherwise.
Title(s) ==
    [i \in 1..Len(s) |->
        IF i = 1 \/ ~IsCased(s[i - 1]) THEN Upper(s[i]) ELSE Lower(s[i])]

Expense == <<"E", "x", "p", "e", "n", "s", "e">>

----------------------------------------------------------------------------
\* pd.to_datetime

IsLeap(y) == (y % 4 = 0 /\ y % 100 # 0) \/ y % 400 = 0

DaysInMonth(y, m) ==
    IF m = 2 THEN (IF IsLeap(y) THEN 29 ELSE 28)
    ELSE IF m \in {4, 6, 9, 11} THEN 30 ELSE 31

\* A Timestamp when (y, m, d) is a calendar date, NaT otherwise.
MakeDate(y, m, d) ==
    IF m \in 1..12 /\ d >= 1 /\ d <= DaysInMonth(y, m)
    THEN Timestamp(y, m, d)
    ELSE NaT

\* Parsing of one string on its own (the dateutil path): with dayfirst the
\* first number of "a/b/y" is the day, without it the month; when that
\* reading is no date the other one is taken.
ParseDatetimeString(v, dayfirst) ==
    CASE v.kind = "iso" -> MakeDate(v.a, v.b, v.c)
      [] v.kind = "slash" ->
            LET dm == MakeDate(v.c, v.b, v.a)
                md == MakeDate(v.c, v.a, v.b)
            IN  IF dayfirst
                THEN (IF dm # NaT THEN dm ELSE md)
                ELSE (IF md # NaT THEN md ELSE dm)
      [] v.kind = "ts" -> v
      [] OTHER -> NaT

\* The format pandas infers from one string; "none" when it infers none.
GuessDatetimeFormat(v, dayfirst) ==
    CASE v.kind = "iso" -> "%Y-%m-%d"
      [] v.kind = "slash" ->
            IF v.a > 12 THEN "%d/%m/%Y"
            ELSE IF v.b > 12 THEN "%m/%d/%Y"
            ELSE IF dayfirst THEN "%d/%m/%Y" ELSE "%m/%d/%Y"
      [] OTHER -> "none"

\* Parsing of one cell with a fixed format, errors='coerce'.
Strptime(v, fmt) ==
    CASE v.kind = "ts" -> v
      [] v.kind = "iso" /\ fmt = "%Y-%m-%d" -> MakeDate(v.a, v.b, v.c)
      [] v.kind = "slash" /\ fmt = "%d/%m/%Y" -> MakeDate(v.c, v.b, v.a)
      [] v.kind = "slash" /\ fmt = "%m/%d/%Y" -> MakeDate(v.c, v.a, v.b)
      [] OTHER -> NaT

\* Position of the first cell that is not null, 0 when there is none.
FirstNonNull(col) ==
    IF \E i \in 1..Len(col) : ~IsNull(col[i])
    THEN CHOOSE i \in 1..Len(col) :
            ~IsNull(col[i]) /\ \A j \in 1..(i - 1) : IsNull(col[j])
    ELSE 0

\* pd.to_datetime(col, errors='coerce'): the format is inferred from the
\* first non-null cell and applied to every cell; cells that do not match
\* become NaT.  When no format can be inferred each cell is parsed on its
\* own, month first.
ToDatetime(col) ==
    LET k   == FirstNonNull(col)
        fmt == IF k = 0 THEN "none" ELSE GuessDatetimeFormat(col[k], FALSE)
    IN  [i \in 1..Len(col) |->
            IF fmt # "none"
            THEN Strptime(col[i], fmt)
            ELSE ParseDatetimeString(col[i], FALSE)]

\* pd.to_datetime(col, format='mixed', dayfirst=True, errors='coerce'):
\* every cell is parsed on its own, day first.
ToDatetimeMixedDayfirst(col) ==
    [i \in 1..Len(col) |-> ParseDatetimeString(col[i], TRUE)]

Column(frame) == [i \in 1..Len(frame) |-> frame[i].date]

SetColumn(frame, col) ==
    [i \in 1..Len(frame) |-> [frame[i] EXCEPT !.date = col[i]]]

\* df['date'] = pd.to_datetime(df['date'], errors='coerce')
ConvertDateColumn(frame) == SetColumn(frame, ToDatetime(Column(frame)))

\* The try block of step 4: the day-first conversion of the column, then
\* the generic conversion of the cells that are still null.
ResolveDateColumn(frame) ==
    LET first  == SetColumn(frame, ToDatetimeMixedDayfirst(Column(frame)))
        nulls  == {i \in 1..Len(first) : IsNull(first[i].date)}
        retry  == ToDatetime(Column(SelectSeq(first, LAMBDA r : IsNull(r.date))))
        rank(i) == Cardinality({j \in nulls : j <= i})
    IN  [i \in 1..Len(first) |->
            IF i \in nulls
            THEN [first[i] EXCEPT !.date = retry[rank(i)]]
            ELSE first[i]]

----------------------------------------------------------------------------
\* dropna, the signed amount, the calendar columns

Complete_IgnoresAmount(r) == ~IsNull(r.date) /\ ~r.type.na

Complete(r) == ~IsNull(r.date) /\ ~r.amount.na /\ ~r.type.na

\* df.dropna(subset=['date', 'amount', 'type'])
DropNa(frame) == SelectSeq(frame, Complete)

\* The number printed by "Dropped N rows"; NoMessage when nothing is printed.
NoMessage == [printed |-> FALSE, count |-> 0]

DroppedMessage(before, after) ==
    IF after < before
    THEN [printed |-> TRUE, count |-> before - after]
    ELSE NoMessage

\* The .str accessor exists on an object column only: a column read from
\* cells that are all empty is float64.  A file with no data row gives
\* object columns.
TypeIsStringColumn(rows) ==
    Len(rows) = 0 \/ \E i \in 1..Len(rows) : ~rows[i].type.na

\* df['type'].str.strip().str.title()
NormalizeType(s) == Title(Strip(s))

Abs(x) == IF x < 0 THEN -x ELSE x

SignedAmount_NoAbs(type, amount) ==
    IF type = Expense THEN -amount ELSE amount

SignedAmount_Swapped(type, amount) ==
    IF type = Expense THEN Abs(amount) ELSE -Abs(amount)

\* np.where(type.eq('Expense'), -amount.abs(), amount.abs())
SignedAmount(type, amount) ==
    IF type = Expense THEN -Abs(amount) ELSE Abs(amount)

SignRow(r) ==
    LET t == NormalizeType(r.type.s)
    IN  [index |-> r.index, date |-> r.date, amount |-> r.amount,
         type |-> Label(t), signed_amount |-> SignedAmount(t, r.amount.v)]

\* pd.api.types.is_datetime64_any_dtype(df['date'])
IsDatetime64(frame) ==
    \A i \in 1..Len(frame) : frame[i].date.kind \in {"ts", "nat"}

\* df['date'].dt.year, df['date'].dt.month
EnrichRow(r) ==
    [index |-> r.index, date |-> r.date, amount |-> r.amount,
     type |-> r.type, signed_amount |-> r.signed_amount,
     year |-> r.date.a, month |-> r.date.b]

----------------------------------------------------------------------------
\* sort_values, cumsum, groupby

DateKey(d) == d.a * 10000 + d.b * 100 + d.c

Orders(n) == {p \in [1..n -> 1..n] : \A i, j \in 1..n : p[i] = p[j] => i = j}

Reorder(frame, p) == [i \in 1..Len(frame) |-> frame[p[i]]]

\* df.sort_values('date'): the default kind is 'quicksort', which is not a
\* stable sort, so rows of equal date come out in any order.
SortValues(frame) ==
    { Reorder(frame, p) : p \in
        { q \in Orders(Len(frame)) :
            \A i, j \in 1..Len(frame) :
                i < j => DateKey(frame[q[i]].date) <= DateKey(frame[q[j]].date) } }

RECURSIVE Sum(_)
Sum(s) == IF s = << >> THEN 0 ELSE Head(s) + Sum(Tail(s))

CumSum_Exclusive(s) == [i \in 1..Len(s) |-> Sum(SubSeq(s, 1, i - 1))]

\* Series.cumsum()
CumSum(s) == [i \in 1..Len(s) |-> Sum(SubSeq(s, 1, i))]

SignedAmounts(frame) == [i \in 1..Len(frame) |-> frame[i].signed_amount]

AccumulateRows(frame) ==
    LET bal == CumSum(SignedAmounts(frame))
    IN  [i \in 1..Len(frame) |->
            [index |-> frame[i].index, date |-> frame[i].date,
             amount |-> frame[i].amount, type |-> frame[i].type,
             signed_amount |-> frame[i].signed_amount,
             year |-> frame[i].year, month |-> frame[i].month,
             running_balance |-> bal[i]]]

GroupKey_YearOnly(r) == [year |-> r.year, month |-> 0]

\* The key of a row under groupby(['year', 'month']).
GroupKey(r) == [year |-> r.year, month |-> r.month]

KeyOrder(k) == k.year * 12 + k.month

\* The group keys in ascending order (groupby sorts its keys).
SortedKeys(frame) ==
    LET keys == {GroupKey(frame[i]) : i \in 1..Len(frame)}
    IN  CHOOSE s \in [1..Cardinality(keys) -> keys] :
            \A i, j \in 1..Cardinality(keys) :
                i < j => KeyOrder(s[i]) < KeyOrder(s[j])

\* lambda s: s[s>0].sum() if not s.empty else 0
TotalIncome(s) ==
    IF s # << >> THEN Sum(SelectSeq(s, LAMBDA x : x > 0)) ELSE 0

TotalExpense_NotNegated(s) ==
    IF s # << >> /\ (\E i \in 1..Len(s) : s[i] < 0)
    THEN Sum(SelectSeq(s, LAMBDA x : x < 0))
    ELSE 0

\* lambda s: -s[s<0].sum() if not s.empty and any(s<0) else 0
TotalExpense(s) ==
    IF s # << >> /\ (\E i \in 1..Len(s) : s[i] < 0)
    THEN -Sum(SelectSeq(s, LAMBDA x : x < 0))
    ELSE 0

\* df.groupby(['year', 'month'], as_index=False).agg(...)
MonthlySummary(frame) ==
    LET keys == SortedKeys(frame)
    IN  [g \in 1..Len(keys) |->
            LET s == SignedAmounts(
                        SelectSeq(frame, LAMBDA r : GroupKey(r) = keys[g]))
            IN  [year |-> keys[g].year, month |-> keys[g].month,
                 transaction_count |-> Len(s),
                 total_income |-> TotalIncome(s),
                 total_expense |-> TotalExpense(s),
                 net_cashflow |-> Sum(s)]]

TransactionsFile == "output/transactions_clean.csv"

MonthlyFile == "output/monthly_summary.csv"

----------------------------------------------------------------------------
\* The run of main()

\* The data rows explored: every row whose three cells are filled, and rows
\* with an empty date, an empty amount, an empty type, or nothing at all.
CompleteRows ==
    [date : RawDates \ {NaN}, amount : RawAmounts \ {NaNAmount},
     type : RawTypes \ {NaNType}]

IncompleteRows ==
    { [date |-> NaN, amount |-> Amount(10000), type |-> t] : t \in RawTypes \ {NaNType} }
    \cup
    { [date |-> d, amount |-> NaNAmount, type |-> RawTypeIncome] :
        d \in {IsoString(2024, 1, 5), TextString} }
    \cup
    { [date |-> IsoString(2024, 1, 5), amount |-> Amount(10000), type |-> NaNType],
      [date |-> NaN, amount |-> NaNAmount, type |-> NaNType] }

RawRows == CompleteRows \cup IncompleteRows

Inputs == UNION {[1..n -> RawRows] : n \in 0..MaxRows}

\* pd.read_csv: every data row gets its index label.
ReadCsv(rows) ==
    [i \in 1..Len(rows) |->
        [index |-> i, date |-> rows[i].date, amount |-> rows[i].amount,
         type |-> rows[i].type]]

Init ==
    /\ input \in Inputs
    /\ df = ReadCsv(input)
    /\ pc = "Loaded"
    /\ initial_count = 0
    /\ dropped = NoMessage
    /\ monthly_summary = << >>
    /\ written = {}

\* Step 4, first statement: the generic conversion of the raw column.
ConvertDate ==
    /\ pc = "Loaded"
    /\ df' = ConvertDateColumn(df)
    /\ pc' = "Converted"
    /\ UNCHANGED <<input, initial_count, dropped, monthly_summary, written>>

\* Step 4, the try block: day-first conversion, then the retry of the nulls.
ResolveDates ==
    /\ pc = "Converted"
    /\ df' = ResolveDateColumn(df)
    /\ pc' = "DateResolved"
    /\ UNCHANGED <<input, initial_count, dropped, monthly_summary, written>>

\* Drop rows with invalid dates or missing values.
Filter ==
    /\ pc = "DateResolved"
    /\ initial_count' = Len(df)
    /\ df' = DropNa(df)
    /\ dropped' = DroppedMessage(Len(df), Len(df'))
    /\ pc' = "Filtered"
    /\ UNCHANGED <<input, monthly_summary, written>>

\* Step 6: normalise the type and derive the signed amount.
Sign ==
    /\ pc = "Filtered"
    /\ TypeIsStringColumn(input)
    /\ df' = [i \in 1..Len(df) |-> SignRow(df[i])]
    /\ pc' = "Signed"
    /\ UNCHANGED <<input, initial_count, dropped, monthly_summary, written>>

\* Step 6 on a type column that holds no string: the .str accessor raises,
\* the outer handler prints the error and main() returns.
SignRaises ==
    /\ pc = "Filtered"
    /\ ~TypeIsStringColumn(input)
    /\ pc' = "Failed"
    /\ UNCHANGED <<input, df, initial_count, dropped, monthly_summary, written>>

\* Step 7 and the date features.  A date column that is not datetime64 is
\* converted once more, and main() returns when that leaves no date at all.
Enrich ==
    /\ pc = "Signed"
    /\ LET fixed == IF IsDatetime64(df) THEN df ELSE ConvertDateColumn(df)
       IN  IF ~IsDatetime64(df) /\ \A i \in 1..Len(fixed) : IsNull(fixed[i].date)
           THEN /\ pc' = "Failed"
                /\ df' = fixed
           ELSE /\ pc' = "Enriched"
                /\ df' = [i \in 1..Len(fixed) |-> EnrichRow(fixed[i])]
    /\ UNCHANGED <<input, initial_count, dropped, monthly_summary, written>>

Sort ==
    /\ pc = "Enriched"
    /\ df' \in SortValues(df)
    /\ pc' = "Sorted"
    /\ UNCHANGED <<input, initial_count, dropped, monthly_summary, written>>

Accumulate ==
    /\ pc = "Sorted"
    /\ df' = AccumulateRows(df)
    /\ pc' = "Accumulated"
    /\ UNCHANGED <<input, initial_count, dropped, monthly_summary, written>>

Aggregate ==
    /\ pc = "Accumulated"
    /\ monthly_summary' = MonthlySummary(df)
    /\ pc' = "Aggregated"
    /\ UNCHANGED <<input, df, initial_count, dropped, written>>

\* Step 8: both files are written.
Save ==
    /\ pc = "Aggregated"
    /\ written' = {TransactionsFile, MonthlyFile}
    /\ pc' = "Emitted"
    /\ UNCHANGED <<input, df, initial_count, dropped, monthly_summary>>

Next ==
    \/ ConvertDate
    \/ ResolveDates
    \/ Filter
    \/ Sign
    \/ SignRaises
    \/ Enrich
    \/ Sort
    \/ Accumulate
    \/ Aggregate
    \/ Save

Spec == Init /\ [][Next]_vars

----------------------------------------------------------------------------
\* Properties

Signed == pc \in {"Signed", "Enriched", "Sorted", "Accumulated", "Aggregated", "Emitted"}

Sorted == pc \in {"Sorted", "Accumulated", "Aggregated", "Emitted"}

Accumulated == pc \in {"Accumulated", "Aggregated", "Emitted"}

Aggregated == pc \in {"Aggregated", "Emitted"}

Rows == 1..Len(df)

\* The row of the input that row k of df comes from.
Raw(k) == input[df[k].index]

IsExpenseRow(k) == NormalizeType(Raw(k).type.s) = Expense

\* C1, as stated: in the clean output signed_amount is strictly negative
\* exactly when the stripped, title-cased type is "Expense", whatever the
\* amount (zero and negative amounts included).
C1_NegativeIffExpense ==
    Signed => \A k \in Rows : (df[k].signed_amount < 0) <=> IsExpenseRow(k)

\* C1, amended: signed_amount is strictly negative exactly when the type is
\* "Expense" and the amount is not zero, strictly positive exactly when the
\* type is not "Expense" and the amount is not zero, and zero exactly when
\* the amount is zero.
C1_SignFollowsExpenseAndAmount ==
    Signed =>
        \A k \in Rows :
            /\ (df[k].signed_amount < 0) <=> (IsExpenseRow(k) /\ Raw(k).amount.v # 0)
            /\ (df[k].signed_amount > 0) <=> (~IsExpenseRow(k) /\ Raw(k).amount.v # 0)
            /\ (df[k].signed_amount = 0) <=> (Raw(k).amount.v = 0)

\* An expense row of amount zero next to an expense row of non-zero amount
\* and an income row of negative amount.
C1_Witness ==
    /\ pc = "Emitted"
    /\ \E k \in Rows : IsExpenseRow(k) /\ Raw(k).amount.v = 0 /\ df[k].signed_amount = 0
    /\ \E k \in Rows :
          \/ IsExpenseRow(k) /\ df[k].signed_amount < 0
          \/ ~IsExpenseRow(k) /\ Raw(k).amount.v < 0 /\ df[k].signed_amount > 0

\* C2: in the emitted order running_balance is the prefix sum of
\* signed_amount: the first balance is the first signed amount, each later
\* balance is the previous balance plus the row's signed amount, and the last
\* balance is the sum of all signed amounts.
C2_RunningBalanceIsPrefixSum ==
    (Accumulated /\ Len(df) > 0) =>
        /\ df[1].running_balance = df[1].signed_amount
        /\ \A k \in 2..Len(df) :
              df[k].running_balance = df[k - 1].running_balance + df[k].signed_amount
        /\ df[Len(df)].running_balance = Sum(SignedAmounts(df))

C2_Witness ==
    /\ pc = "Emitted"
    /\ Len(df) = 2
    /\ df[1].signed_amount > 0
    /\ df[2].signed_amount < 0
    /\ df[2].running_balance = df[1].signed_amount + df[2].signed_amount

\* A slash date whose two numbers can both be a month.
IsAmbiguous(v) == v.kind = "slash" /\ v.a <= 12 /\ v.b <= 12 /\ v.a # v.b

DateResolved == pc \notin {"Loaded", "Converted"}

\* C3: a row whose raw date is ambiguous between day-first and month-first
\* ("03/04/2024") is resolved to the day-first reading (3 April 2024), and
\* so are its year and month.
C3_AmbiguousResolvesDayFirst ==
    DateResolved =>
        \A k \in Rows :
            IsAmbiguous(Raw(k).date) =>
                df[k].date = Timestamp(Raw(k).date.c, Raw(k).date.b, Raw(k).date.a)

\* Neither strategy reads the raw value as a date.
Unresolvable(v) ==
    /\ ParseDatetimeString(v, TRUE) = NaT
    /\ ToDatetime(<<v>>)[1] = NaT

\* C4: a run on at least one data row of which none has a resolvable date
\* aborts and writes neither output file.
C4_NoResolvableDateWritesNothing ==
    (Len(input) >= 1 /\ \A i \in 1..Len(input) : Unresolvable(input[i].date)) =>
        (written = {} /\ pc # "Emitted")

\* C5: the filter keeps exactly the rows with a resolved date, a present
\* amount and a present type, unchanged and in their original order, and the
\* dropped count it reports is the number of rows before minus the number
\* kept.
C5_FilterKeepsExactlyCompleteRows ==
    [][pc = "DateResolved" =>
        LET keep == {i \in 1..Len(df) :
                        /\ df[i].date.kind = "ts"
                        /\ ~df[i].amount.na
                        /\ ~df[i].type.na}
        IN  /\ {df'[k].index : k \in 1..Len(df')} = {df[i].index : i \in keep}
            /\ Len(df') = Cardinality(keep)
            /\ \A k \in 1..Len(df') : \E i \in keep : df'[k] = df[i]
            /\ \A k, l \in 1..Len(df') : k < l => df'[k].index < df'[l].index
            /\ initial_count' = Len(df)
            /\ (Len(df') < Len(df)) =>
                  (dropped'.printed /\ dropped'.count = Len(df) - Len(df'))
            /\ (Len(df') = Len(df)) => ~dropped'.printed
    ]_vars

\* A row with a valid date and no amount is dropped and counted, another
\* row is kept.
C5_Witness ==
    /\ pc = "Filtered"
    /\ Len(df) = 1
    /\ initial_count = 2
    /\ dropped = [printed |-> TRUE, count |-> 1]
    /\ \E i \in 1..Len(input) :
          /\ input[i].date.kind = "iso"
          /\ input[i].amount.na
          /\ ~input[i].type.na
          /\ df[1].index # i

InGroup(k, g) == df[k].year = g.year /\ df[k].month = g.month

\* C6: for every row of the monthly summary net_cashflow is total_income
\* minus total_expense, total_income is the sum of the strictly positive
\* signed amounts of the group and total_expense the sum of the absolute
\* values of its strictly negative signed amounts.
C6_NetIsIncomeMinusExpense ==
    Aggregated =>
        \A n \in 1..Len(monthly_summary) :
            LET g == monthly_summary[n]
                pos == [k \in Rows |->
                          IF InGroup(k, g) /\ df[k].signed_amount > 0
                          THEN df[k].signed_amount ELSE 0]
                neg == [k \in Rows |->
                          IF InGroup(k, g) /\ df[k].signed_amount < 0
                          THEN -df[k].signed_amount ELSE 0]
            IN  /\ g.total_income = Sum(pos)
                /\ g.total_expense = Sum(neg)
                /\ g.net_cashflow = g.total_income - g.total_expense

C6_Witness ==
    /\ pc = "Emitted"
    /\ \E n \in 1..Len(monthly_summary) :
          /\ monthly_summary[n].total_income > 0
          /\ monthly_summary[n].total_expense > 0
          /\ monthly_summary[n].transaction_count = 2

\* C7: the monthly summary has exactly one row per (year, month) pair of the
\* clean output, no two of its rows share a key, and its transaction counts
\* add up to the number of rows of the clean output.
C7_SummaryPartitionsCleanOutput ==
    Aggregated =>
        LET n == Len(monthly_summary)
            key(g) == <<g.year, g.month>>
        IN  /\ {key(monthly_summary[i]) : i \in 1..n}
                  = {<<df[k].year, df[k].month>> : k \in Rows}
            /\ \A i, j \in 1..n :
                  key(monthly_summary[i]) = key(monthly_summary[j]) => i = j
            /\ Sum([i \in 1..n |-> monthly_summary[i].transaction_count]) = Len(df)
            /\ \A i \in 1..n :
                  monthly_summary[i].transaction_count
                     = Cardinality({k \in Rows : InGroup(k, monthly_summary[i])})

C7_Witness ==
    /\ pc = "Emitted"
    /\ Len(df) = 2
    /\ Len(monthly_summary) = 2
    /\ monthly_summary[1].month # monthly_summary[2].month

\* The clean output read back as the input of a second run: signed_amount
\* is the amount, every row is a non-expense, the rows are labelled in the
\* order they were written.
RerunInput(frame) ==
    [k \in 1..Len(frame) |->
        [index |-> k, date |-> frame[k].date,
         amount |-> Amount(frame[k].signed_amount),
         type |-> Label(<<"I", "n", "c", "o", "m", "e">>)]]

\* The clean outputs the second run can produce.
RerunOutputs(frame) ==
    LET filtered == DropNa(ResolveDateColumn(ConvertDateColumn(RerunInput(frame))))
        enriched == [k \in 1..Len(filtered) |-> EnrichRow(SignRow(filtered[k]))]
    IN  {AccumulateRows(sorted) : sorted \in SortValues(enriched)}

SameBalances(frame) ==
    \A out \in RerunOutputs(frame) :
        /\ Len(out) = Len(frame)
        /\ \A k \in 1..Len(out) :
              out[k].running_balance = frame[out[k].index].running_balance

\* C8, as stated: a second run on the clean output, with signed_amount as
\* the amount and every row a non-expense, gives every row the
\* running_balance the first run gave it, for every input.
C8_RerunReproducesBalances ==
    pc = "Emitted" => SameBalances(df)

\* C8, amended: the second run gives every row the running_balance of the
\* first run for every input whose clean output has no negative
\* signed_amount and no two rows of the same date.
C8_RerunReproducesNonNegativeBalances ==
    (/\ pc = "Emitted"
     /\ \A k \in Rows : df[k].signed_amount >= 0
     /\ \A k, l \in Rows : df[k].date = df[l].date => k = l)
    => SameBalances(df)

\* Two rows of different dates and positive signed amounts, read in the
\* reverse of the date order.
C8_Witness ==
    /\ pc = "Emitted"
    /\ Len(df) = 2
    /\ df[1].signed_amount > 0
    /\ df[2].signed_amount > 0
    /\ df[1].date # df[2].date
    /\ df[1].index > df[2].index
    /\ SameBalances(df)

\* C9: the clean output is in ascending date order and rows of equal date
\* keep the relative order they had after filtering.
C9_SortIsStable ==
    Sorted =>
        \A k, l \in Rows :
            k < l =>
                /\ DateKey(df[k].date) <= DateKey(df[l].date)
                /\ df[k].date = df[l].date => df[k].index < df[l].index

\* C10: a row is left unresolved only when both the day-first strategy and
\* the generic strategy fail on its raw value; a row that one of the two can
\* parse is resolved.
C10_UnresolvedOnlyIfBothStrategiesFail ==
    pc = "DateResolved" =>
        \A k \in Rows : IsNull(df[k].date) => Unresolvable(Raw(k).date)

====
